---- MODULE Spec2Model ----
(***************************************************************************)
(* The quiz session engine of dxquizbot: the session store activeQuizzes,  *)
(* the session state machine (loadAndStartQuiz, nextQuestion,              *)
(* handleQuestionTimeout, endQuiz), the answer scorer (processAnswer) and  *)
(* the results aggregator (calculateResults).                              *)
(*                                                                         *)
(* The repository holds two revisions of the engine: src/src/quiz.js       *)
(* (first-correct-only scoring, visual question timer) and                 *)
(* src/unnamed/part_004 (base + first + streak scoring, single question    *)
(* timer).  The variable revision fixes, for a whole behaviour, which of   *)
(* the two modules is loaded.  Inside one file a function declared twice   *)
(* is the later declaration (JavaScript hoists function declarations).     *)
(*                                                                         *)
(* JavaScript runs one handler at a time; a handler gives up control only  *)
(* at an await.  Every action below is one synchronous run of code: from   *)
(* an entry point (a call, a timer firing) or from the resumption of an    *)
(* await, up to the next await or the return.                              *)
(***************************************************************************)
EXTENDS Integers, Sequences, FiniteSets, Bags, TLC

\* ------------------------------------------------------------- bounds
\* Spec: the engine as the bot wires it (handlers.js calls loadAndStartQuiz,
\* endQuiz and processAnswer; everything else is driven by timeouts).
NumChats == 1
NumUsers == 2
NumAnswers == 2
MaxQuestions == 3
MaxSessions == 1
MaxTime == 1
MaxPending == 1
QuestionTime == 1
\* SpecApi: every exported function called directly, one user answering.
ApiUsers == 1
ApiMaxQuestions == 2
ApiMaxSessions == 1
\* SpecRestart: sessions following each other in a chat, as the bot wires
\* the engine, one user answering.
RestartUsers == 1
RestartMaxQuestions == 1
RestartMaxSessions == 2
\* SpecLive: one session as the bot wires the engine, one user answering,
\* timeouts firing and awaits settling in the end.
LiveUsers == 1
LiveMaxQuestions == 2
LiveMaxSessions == 1
\* SpecStart: start requests going through the bot's startQuizById handler,
\* at most MaxStarts of them in flight, one user answering.
StartUsers == 1
StartMaxQuestions == 1
StartMaxSessions == 2
MaxStarts == 2
\* SpecResults: calculateResults on the participants of a session about to
\* end: up to ResultsUsers of them, in any order of first answer, with up
\* to ResultsMaxCorrect correct answers and response times up to
\* ResultsMaxTime.
ResultsUsers == 3
ResultsMaxCorrect == 2
ResultsMaxTime == 2
\* SpecChats: sessions in IsolationChats chats side by side, as the bot
\* wires the engine, one user answering.
IsolationChats == 2
IsolationUsers == 1
IsolationMaxQuestions == 1
IsolationMaxSessions == 2
\* SpecAdmin: the engine driven through the bot's admin commands, at most
\* MaxChecks of them waiting for their membership lookup, one user
\* answering.
AdminUsers == 1
AdminMaxQuestions == 1
AdminMaxSessions == 1
MaxChecks == 1
\* SpecMalformed: sessions in MalformedChats chats side by side, as the bot
\* wires the engine, loaded from definitions whose entries may be missing
\* or lack their options, one user answering.
MalformedChats == 2
MalformedUsers == 1
MalformedMaxQuestions == 1
MalformedMaxSessions == 2
\* let countdown = 5 in loadAndStartQuiz (quiz.js)
CountdownStart == 5

\* the chat ids the store may hold; NumChats of them see quizzes in every
\* specification but SpecChats
Chats == (1..NumChats) \cup (1..IsolationChats)
Answers == 0..(NumAnswers - 1)
Revisions == {"quiz_js", "part_004"}

\* the forms an entry of a definition's question array can take
WellFormed == {"question"}
AnyForm == {"question", "noOptions", "null"}

\* what bounds the inputs of one specification
Bounds ==
  [ chats |-> 1..NumChats, users |-> 1..NumUsers, maxQuestions |-> MaxQuestions,
    maxSessions |-> MaxSessions,
    forms |-> WellFormed ]
ApiBounds ==
  [ chats |-> 1..NumChats, users |-> 1..ApiUsers, maxQuestions |-> ApiMaxQuestions,
    maxSessions |-> ApiMaxSessions,
    forms |-> WellFormed ]
RestartBounds ==
  [ chats |-> 1..NumChats, users |-> 1..RestartUsers, maxQuestions |-> RestartMaxQuestions,
    maxSessions |-> RestartMaxSessions,
    forms |-> WellFormed ]
LiveBounds ==
  [ chats |-> 1..NumChats, users |-> 1..LiveUsers, maxQuestions |-> LiveMaxQuestions,
    maxSessions |-> LiveMaxSessions,
    forms |-> WellFormed ]
IsolationBounds ==
  [ chats |-> 1..IsolationChats, users |-> 1..IsolationUsers,
    maxQuestions |-> IsolationMaxQuestions,
    maxSessions |-> IsolationMaxSessions,
    forms |-> WellFormed ]

StartBounds ==
  [ chats |-> 1..NumChats, users |-> 1..StartUsers, maxQuestions |-> StartMaxQuestions,
    maxSessions |-> StartMaxSessions,
    forms |-> WellFormed ]

AdminBounds ==
  [ chats |-> 1..NumChats, users |-> 1..AdminUsers,
    maxQuestions |-> AdminMaxQuestions, maxSessions |-> AdminMaxSessions,
    forms |-> WellFormed ]

MalformedBounds ==
  [ chats |-> 1..MalformedChats, users |-> 1..MalformedUsers,
    maxQuestions |-> MalformedMaxQuestions,
    maxSessions |-> MalformedMaxSessions,
    forms |-> AnyForm ]

\* ------------------------------------------------------------- state
VARIABLES
  revision,       \* which revision of the engine module is loaded
  activeQuizzes,  \* chatId -> session id, 0 when the Map has no entry
  quizzes,        \* the quiz state objects ever created, by session id
  definitions,    \* the questions array of the quizData each was loaded from
  timers,         \* bag of scheduled, not yet fired or cleared, timeouts
  awaiting,       \* bag of handlers suspended at an await
  now             \* the last value Date.now() returned

vars == <<revision, activeQuizzes, quizzes, definitions, timers, awaiting, now>>

\* ------------------------------------------------- JavaScript numbers
\* participant.streak and participant.maxStreak are read before they are
\* ever written when createParticipant leaves them out: undefined, and NaN
\* once arithmetic touched them.
JsNum(n) == [t |-> "num", v |-> n]
JsUndefined == [t |-> "undefined", v |-> 0]
JsNaN == [t |-> "NaN", v |-> 0]
\* x++ on a field
JsInc(x) == IF x.t = "num" THEN JsNum(x.v + 1) ELSE JsNaN
\* Math.max(a, b)
JsMax(a, b) ==
  IF a.t = "num" /\ b.t = "num"
  THEN JsNum(IF a.v >= b.v THEN a.v ELSE b.v)
  ELSE JsNaN
\* a >= b : false as soon as one side is NaN or undefined
JsGe(a, b) == a.t = "num" /\ b.t = "num" /\ a.v >= b.v

\* ------------------------------------------------------- object templates
\* quiz.timers is not a field here: a scheduled timeout carries the slot of
\* quiz.timers that holds its handle (see SetTimer, clearTimers).
\* participants is the Map in insertion order; endTime 0 is null.
createNewQuiz(adminId) ==
  [ adminId |-> adminId,
    status |-> "setup",
    questions |-> << >>,
    currentQuestionIndex |-> -1,
    participants |-> << >>,
    endTime |-> 0 ]

\* form tells what the array element is: "question" an object with its text
\* and its four options, "noOptions" an object whose options are undefined,
\* "null" no object at all (the other fields of a null entry are never read)
createQuestion(correctAnswer) ==
  [ form |-> "question",
    correctAnswer |-> correctAnswer,
    responses |-> << >>,
    firstCorrectAnswer |-> 0 ]

\* the first declaration of createParticipant in part_004 (shadowed)
createParticipantFirstDecl(userId) ==
  [ userId |-> userId, correctAnswers |-> 0, score |-> 0, responses |-> << >>,
    lastResponseTime |-> 0, streak |-> JsNum(0), maxStreak |-> JsNum(0) ]

\* the effective (last) declaration of createParticipant, the same text in
\* both revisions: no streak and no maxStreak field
createParticipant(userId) ==
  [ userId |-> userId, correctAnswers |-> 0, score |-> 0, responses |-> << >>,
    lastResponseTime |-> 0, streak |-> JsUndefined, maxStreak |-> JsUndefined ]

\* a question as JSON.parse of a saved quiz yields it: no responses array and
\* no firstCorrectAnswer yet (processAnswer creates them on first use; an
\* absent array and an empty one read the same everywhere)
LoadedQuestion(correctAnswer) == createQuestion(correctAnswer)

\* the quiz definitions an operator can load: n questions, question i having
\* the correct option (i-1) mod NumAnswers; the empty definition is refused
QuizData(n) == [i \in 1..n |-> LoadedQuestion((i - 1) % NumAnswers)]
Formed(questions, forms) ==
  [i \in 1..Len(questions) |-> [questions[i] EXCEPT !.form = forms[i]]]
QuizDefinitions(b) ==
  UNION {{Formed(QuizData(n), forms) : forms \in [1..n -> b.forms]} :
           n \in 0..b.maxQuestions}

\* ------------------------------------------------------ the state as a value
\* Handlers call each other (a timer callback calls nextQuestion, which
\* calls endQuiz), so each synchronous run is a function from state to state.
\* ret is what the run returned to its caller (NoReturn: nothing yet, the
\* handler is suspended, or the callback returns nothing).
NoReturn == [op |-> "", success |-> FALSE, message |-> ""]

Cur ==
  [ aq |-> activeQuizzes, qz |-> quizzes, qd |-> definitions, tm |-> timers,
    aw |-> awaiting, now |-> now, ret |-> NoReturn ]

Apply(s) ==
  /\ activeQuizzes' = s.aq
  /\ quizzes' = s.qz
  /\ definitions' = s.qd
  /\ timers' = s.tm
  /\ awaiting' = s.aw
  /\ now' = s.now
  /\ UNCHANGED revision

Return(s, op, success, message) ==
  [s EXCEPT !.ret = [op |-> op, success |-> success, message |-> message]]

One(e) == SetToBag({e})

\* a scheduled timeout: the callback (kind), what its closure captured (the
\* quiz object sid, chatId, a counter or index n), the slot of quiz.timers
\* its handle was stored in ("none": the handle was dropped), and whether
\* that slot still holds this handle (ref)
Timer(kind, sid, chat, n, slot) ==
  [kind |-> kind, sid |-> sid, chat |-> chat, n |-> n, slot |-> slot,
   ref |-> slot # "none"]

\* a handler suspended at an await
Await(pc, sid, chat, n) == [pc |-> pc, sid |-> sid, chat |-> chat, n |-> n]

\* quiz.timers[slot] = setTimeout(...): the slot's previous handle, if its
\* timeout is still scheduled, is overwritten without being cleared
SetTimer(s, t) ==
  LET hit == {e \in BagToSet(s.tm) : e.sid = t.sid /\ e.slot = t.slot /\ e.ref}
      old == [e \in hit |-> s.tm[e]]
      lost == [e \in {[x EXCEPT !.ref = FALSE] : x \in hit}
                 |-> s.tm[[e EXCEPT !.ref = TRUE]]]
  IN  IF t.slot = "none"
      THEN [s EXCEPT !.tm = @ (+) One(t)]
      ELSE [s EXCEPT !.tm = ((@ (-) old) (+) lost) (+) One(t)]

\* clearTimers(quiz): clearTimeout on every handle held in quiz.timers
clearTimers(s, sid) ==
  LET hit == {e \in BagToSet(s.tm) : e.sid = sid /\ e.ref}
  IN  [s EXCEPT !.tm = @ (-) [e \in hit |-> s.tm[e]]]

Suspend(s, a) == [s EXCEPT !.aw = @ (+) One(a)]

Registered(s, c) == s.aq[c] # 0
AlreadyActive(s, c) == Registered(s, c) /\ s.qz[s.aq[c]].status # "completed"

\* ------------------------------------------------------------ session store
startQuizSetup(s, c, adminId) ==
  IF AlreadyActive(s, c)
  THEN Return(s, "startQuizSetup", FALSE, "already active")
  ELSE Return([s EXCEPT !.qz = Append(@, createNewQuiz(adminId)),
                        !.qd = Append(@, << >>),
                        !.aq[c] = Len(s.qz) + 1],
              "startQuizSetup", TRUE, "")

addQuestion(s, c, correctAnswer) ==
  IF ~Registered(s, c) \/ s.qz[s.aq[c]].status # "setup"
  THEN Return(s, "addQuestion", FALSE, "no setup")
  ELSE Return([s EXCEPT !.qz[s.aq[c]].questions =
                            Append(@, createQuestion(correctAnswer))],
              "addQuestion", TRUE, "")

\* [...questions]: a new array holding the same question objects
Spread(questions) == questions

\* question.responses.push(..) and question.firstCorrectAnswer = .. on the
\* object quiz.questions[i]: the object is also element i of the array it
\* was spread from, when that array has an element i
WriteQuestion(s, sid, i, question) ==
  [s EXCEPT !.qz[sid].questions[i] = question,
            !.qd[sid] = IF i \in DOMAIN @ THEN [@ EXCEPT ![i] = question] ELSE @]

\* registers the new quiz object and gives up control at the announcement
Register(s, c, adminId, quizData) ==
  Suspend([s EXCEPT !.qz = Append(@, [createNewQuiz(adminId)
                                        EXCEPT !.questions = Spread(quizData)]),
                    !.qd = Append(@, quizData),
                    !.aq[c] = Len(s.qz) + 1],
          Await("announce", Len(s.qz) + 1, c, 0))

loadAndStartQuiz_quiz_js(s, c, adminId, quizData) ==
  IF AlreadyActive(s, c)
  THEN Return(s, "loadAndStartQuiz", FALSE, "already active")
  ELSE IF Len(quizData) = 0
  THEN Return(s, "loadAndStartQuiz", FALSE, "no questions")
  ELSE Register(s, c, adminId, quizData)

loadAndStartQuiz_part_004(s, c, adminId, quizData) ==
  Register(s, c, adminId, quizData)

loadAndStartQuiz(rev, s, c, adminId, quizData) ==
  IF rev = "quiz_js"
  THEN loadAndStartQuiz_quiz_js(s, c, adminId, quizData)
  ELSE loadAndStartQuiz_part_004(s, c, adminId, quizData)

\* the announcement settled: quiz.js stores the first countdown timeout in
\* quiz.timers.countdown, part_004 schedules one 5 s timeout and drops the
\* handle; a rejected send goes to the catch block, which only returns
loadAndStartQuizResume(rev, s, a, ok) ==
  IF ~ok
  THEN Return(s, "loadAndStartQuiz", FALSE, "error")
  ELSE IF rev = "quiz_js"
  THEN Return(SetTimer(s, Timer("updateCountdown", a.sid, a.chat,
                                CountdownStart, "countdown")),
              "loadAndStartQuiz", TRUE, "")
  ELSE Return(SetTimer(s, Timer("start", a.sid, a.chat, 0, "none")),
              "loadAndStartQuiz", TRUE, "")

\* ---------------------------------------------------- the bot's start handler
\* startQuizById up to its first await: the store is checked, then the quiz
\* definition is read from storage (the "already active" reply changes nothing)
startQuizById(s, c) ==
  IF AlreadyActive(s, c)
  THEN Return(s, "startQuizById", FALSE, "already active")
  ELSE Suspend(s, Await("getQuiz", 0, c, 0))

\* the storage read settled: without a definition the handler replies and
\* returns; with one (of n questions) it awaits the "Starting Quiz" reply
startQuizByIdRead(s, a, found, n) ==
  IF found
  THEN Suspend(s, Await("startReply", 0, a.chat, n))
  ELSE Return(s, "startQuizById", FALSE, "not found")

\* the reply settled: loadAndStartQuiz is called, or the catch block replies
startQuizByIdLoad(rev, s, a, adminId, ok) ==
  IF ok
  THEN loadAndStartQuiz(rev, s, a.chat, adminId, QuizData(a.n))
  ELSE Return(s, "startQuizById", FALSE, "error")

\* --------------------------------------------------------- results aggregator
\* the comparator of participants.sort: negative when a goes before b
CompareScoreOnly(a, b) == b.score - a.score

Compare(a, b) ==
  IF b.score # a.score THEN b.score - a.score
  ELSE IF b.correctAnswers # a.correctAnswers
  THEN b.correctAnswers - a.correctAnswers
  ELSE a.lastResponseTime - b.lastResponseTime

\* Array.prototype.sort is stable: x goes behind every element that does
\* not compare greater than it
RECURSIVE InsertSorted(_, _)
InsertSorted(x, sorted) ==
  IF sorted = << >> THEN <<x>>
  ELSE IF Compare(x, Head(sorted)) < 0 THEN <<x>> \o sorted
  ELSE <<Head(sorted)>> \o InsertSorted(x, Tail(sorted))

RECURSIVE SortParticipants(_)
SortParticipants(ps) ==
  IF ps = << >> THEN << >>
  ELSE InsertSorted(ps[Len(ps)], SortParticipants(SubSeq(ps, 1, Len(ps) - 1)))

\* the leaderboard of calculateResults: the user ids in sorted order
calculateResults(quiz) ==
  LET sorted == SortParticipants(quiz.participants)
  IN  [i \in 1..Len(sorted) |-> sorted[i].userId]

\* ------------------------------------------------------ session state machine
\* endQuiz up to its await of the leaderboard message
endQuiz(s, c) ==
  LET sid == s.aq[c] IN
  IF sid = 0
  THEN Return(s, "endQuiz", FALSE, "no quiz")
  ELSE Suspend([clearTimers(s, sid) EXCEPT !.qz[sid].status = "completed",
                                           !.qz[sid].endTime = s.now],
               Await("sendResults", sid, c, 0))

\* the sent leaderboard resolved: the eviction timeout captures chatId only
endQuizResume(s, a, ok) ==
  IF ok
  THEN Return(SetTimer(s, Timer("evict", 0, a.chat, 0, "none")),
              "endQuiz", TRUE, "")
  ELSE Return(s, "endQuiz", FALSE, "error")

\* activeQuizzes.delete(chatId)
evictEveryChat(s, t) == [s EXCEPT !.aq = [c \in Chats |-> 0]]

evict(s, t) == [s EXCEPT !.aq[t.chat] = 0]

nextQuestionGuardRegisteredOnly(s, c) == s.aq[c] # 0

nextQuestionGuard(s, c) ==
  /\ s.aq[c] # 0
  /\ s.qz[s.aq[c]].status \in {"setup", "intermission"}

\* quiz.status = "running"; quiz.currentQuestionIndex++
AdvanceSkipping(quiz) ==
  [quiz EXCEPT !.status = "running", !.currentQuestionIndex = @ + 2]

Advance(quiz) ==
  [quiz EXCEPT !.status = "running", !.currentQuestionIndex = @ + 1]

\* if (quiz.currentQuestionIndex >= quiz.questions.length)
PastLastQuestionStrict(quiz) ==
  quiz.currentQuestionIndex > Len(quiz.questions)

PastLastQuestion(quiz) ==
  quiz.currentQuestionIndex >= Len(quiz.questions)

\* const question = quiz.questions[questionIndex]; if (!question)
Missing(quiz, questionIndex) ==
  \/ questionIndex + 1 \notin 1..Len(quiz.questions)
  \/ quiz.questions[questionIndex + 1].form = "null"

\* question.text and question.options[0..3] evaluate: reading a property of
\* null, or an element of undefined options, throws a TypeError
Displayable(quiz, questionIndex) ==
  /\ ~Missing(quiz, questionIndex)
  /\ quiz.questions[questionIndex + 1].form = "question"

\* nextQuestion up to its first await (the question message, or endQuiz's);
\* building the question text throws before anything is sent when the entry
\* cannot be displayed, and the catch block only logs and returns failure
nextQuestion(s, c) ==
  LET sid == s.aq[c] IN
  IF ~nextQuestionGuard(s, c)
  THEN Return(s, "nextQuestion", FALSE, "not in correct state")
  ELSE LET s1 == [clearTimers(s, sid) EXCEPT !.qz[sid] = Advance(@)]
       IN  IF PastLastQuestion(s1.qz[sid])
           THEN endQuiz(s1, c)
           ELSE IF ~Displayable(s1.qz[sid], s1.qz[sid].currentQuestionIndex)
           THEN Return(s1, "nextQuestion", FALSE, "error")
           ELSE Suspend(s1, Await("sendQuestion", sid, c, 0))

\* quiz.js: the question and the timer message were sent (or one of them
\* threw); runVisualTimer starts the update loop
nextQuestionResume_quiz_js(s, a, ok) ==
  IF ok
  THEN Return(SetTimer(s, Timer("updateTimer", a.sid, a.chat, QuestionTime,
                                "question")),
              "nextQuestion", TRUE, "")
  ELSE Return(s, "nextQuestion", FALSE, "error")

\* part_004: one timeout for the whole question time
nextQuestionResume_part_004(s, a, ok) ==
  IF ok
  THEN Return(SetTimer(s, Timer("questionTimeout", a.sid, a.chat, 0,
                                "question")),
              "nextQuestion", TRUE, "")
  ELSE Return(s, "nextQuestion", FALSE, "error")

handleQuestionTimeoutGuardAnyStatus(s, c, questionIndex) ==
  /\ s.aq[c] # 0
  /\ s.qz[s.aq[c]].currentQuestionIndex = questionIndex

handleQuestionTimeoutGuard(s, c, questionIndex) ==
  /\ s.aq[c] # 0
  /\ s.qz[s.aq[c]].status = "running"
  /\ s.qz[s.aq[c]].currentQuestionIndex = questionIndex

\* handleQuestionTimeout up to its first await (disabling the keyboard)
handleQuestionTimeout(s, c, questionIndex) ==
  IF ~handleQuestionTimeoutGuard(s, c, questionIndex)
  THEN s
  ELSE Suspend([s EXCEPT !.qz[s.aq[c]].status = "intermission"],
               Await("timeoutShown", s.aq[c], c, questionIndex))

\* quiz.js: both sends are wrapped in their own try/catch
\* and so never throw; a missing entry schedules nextQuestion in 3 s, an
\* entry without options throws into the outer catch, which schedules it in
\* 5 s, and neither handle is stored
handleQuestionTimeoutResume_quiz_js(s, a, ok) ==
  IF Displayable(s.qz[a.sid], a.n)
  THEN SetTimer(s, Timer("nextQuestion", a.sid, a.chat, 0, "intermission"))
  ELSE SetTimer(s, Timer("nextQuestion", a.sid, a.chat, 0, "none"))

\* part_004: the answer summary is sent unguarded; then a 1 s timeout whose
\* handle is dropped.  When the send throws, the catch block evaluates
\* quiz.settings, but quiz is a const of the try block: a ReferenceError,
\* before setTimeout is called, so nothing is scheduled.
\* A missing entry schedules nextQuestion in 3 s (handle dropped); an
\* entry without options throws into the same catch block.
handleQuestionTimeoutResume_part_004(s, a, ok) ==
  IF Missing(s.qz[a.sid], a.n)
  THEN SetTimer(s, Timer("nextQuestion", a.sid, a.chat, 0, "none"))
  ELSE IF ok /\ Displayable(s.qz[a.sid], a.n)
  THEN SetTimer(s, Timer("leaderboard", a.sid, a.chat, a.n, "none"))
  ELSE s

\* part_004: the leaderboard and the next-question notice were sent
leaderboardResume(s, a, ok) ==
  IF ok
  THEN SetTimer(s, Timer("nextQuestion", a.sid, a.chat, 0, "intermission"))
  ELSE SetTimer(s, Timer("nextQuestion", a.sid, a.chat, 0, "none"))

\* ------------------------------------------------------------ answer scorer
ParticipantIndex(quiz, userId) ==
  IF \E k \in 1..Len(quiz.participants) : quiz.participants[k].userId = userId
  THEN CHOOSE k \in 1..Len(quiz.participants) :
         quiz.participants[k].userId = userId
  ELSE 0

\* participant.responses.push(response), question.responses.push(response)
pushOverLast(responses, response) ==
  IF responses = << >> THEN <<response>>
  ELSE [responses EXCEPT ![Len(responses)] = response]

push(responses, response) == Append(responses, response)

alreadyAnsweredAlways(participant, questionIndex) == TRUE

alreadyAnsweredNever(participant, questionIndex) == FALSE

alreadyAnswered(participant, questionIndex) ==
  \E k \in 1..Len(participant.responses) :
    participant.responses[k].questionIndex = questionIndex

\* if (isCorrect) ... if (!question.firstCorrectAnswer)
IsFirstCorrectEveryCorrect(question, isCorrect) == isCorrect

IsFirstCorrect(question, isCorrect) ==
  isCorrect /\ question.firstCorrectAnswer = 0

Score_quiz_jsEveryCorrect(participant, question, isCorrect) ==
  LET first == IsFirstCorrect(question, isCorrect)
  IN  [ correctAnswers |-> participant.correctAnswers + (IF isCorrect THEN 1 ELSE 0),
        score |-> participant.score + (IF isCorrect THEN 1 ELSE 0),
        streak |-> participant.streak,
        maxStreak |-> participant.maxStreak,
        isFirst |-> first,
        points |-> IF first THEN 1 ELSE 0,
        streakBonus |-> 0 ]

\* quiz.js: one point to the first correct answer, nothing else
Score_quiz_js(participant, question, isCorrect) ==
  LET first == IsFirstCorrect(question, isCorrect)
  IN  [ correctAnswers |-> participant.correctAnswers + (IF isCorrect THEN 1 ELSE 0),
        score |-> participant.score + (IF first THEN 1 ELSE 0),
        streak |-> participant.streak,
        maxStreak |-> participant.maxStreak,
        isFirst |-> first,
        points |-> IF first THEN 1 ELSE 0,
        streakBonus |-> 0 ]

\* if (participant.streak >= 2) streakBonus = 1, after participant.streak++
StreakBonusFromOne(isCorrect, streak) ==
  IF isCorrect /\ JsGe(streak, JsNum(1)) THEN 1 ELSE 0

StreakBonus(isCorrect, streak) ==
  IF isCorrect /\ JsGe(streak, JsNum(2)) THEN 1 ELSE 0

\* part_004: base point, first-correct bonus, streak bonus
Score_part_004(participant, question, isCorrect) ==
  LET first == IsFirstCorrect(question, isCorrect)
      streak == IF isCorrect THEN JsInc(participant.streak) ELSE JsNum(0)
      streakBonus == StreakBonus(isCorrect, streak)
      pointsEarned == IF isCorrect
                      THEN 1 + (IF first THEN 1 ELSE 0) + streakBonus
                      ELSE 0
  IN  [ correctAnswers |-> participant.correctAnswers + (IF isCorrect THEN 1 ELSE 0),
        score |-> participant.score + pointsEarned,
        streak |-> streak,
        maxStreak |-> IF isCorrect
                      THEN JsMax(participant.maxStreak, streak)
                      ELSE participant.maxStreak,
        isFirst |-> first,
        points |-> pointsEarned,
        streakBonus |-> streakBonus ]

Score(rev, participant, question, isCorrect) ==
  IF rev = "quiz_js"
  THEN Score_quiz_js(participant, question, isCorrect)
  ELSE Score_part_004(participant, question, isCorrect)

processAnswerGuardAnyStatus(s, c, questionIndex) ==
  /\ s.aq[c] # 0
  /\ s.qz[s.aq[c]].currentQuestionIndex = questionIndex
  /\ ~Missing(s.qz[s.aq[c]], questionIndex)

processAnswerGuard(s, c, questionIndex) ==
  /\ s.aq[c] # 0
  /\ s.qz[s.aq[c]].status = "running"
  /\ s.qz[s.aq[c]].currentQuestionIndex = questionIndex
  /\ ~Missing(s.qz[s.aq[c]], questionIndex)

\* processAnswer: everything up to its only await (the acknowledgment
\* ctx.answerCbQuery) is one synchronous run; responseTime is Date.now() and
\* ackOk tells whether the acknowledgment went through
processAnswer(rev, s, c, userId, questionIndex, answerIndex, responseTime, ackOk) ==
  IF ~processAnswerGuard(s, c, questionIndex)
  THEN Return(s, "processAnswer", FALSE, "")
  ELSE
    LET sid == s.aq[c]
        quiz == s.qz[sid]
        question == quiz.questions[questionIndex + 1]
        known == ParticipantIndex(quiz, userId)
        ps == IF known = 0
              THEN Append(quiz.participants, createParticipant(userId))
              ELSE quiz.participants
        k == IF known = 0 THEN Len(ps) ELSE known
        participant == ps[k]
    IN
    IF alreadyAnswered(participant, questionIndex)
    THEN Return([s EXCEPT !.qz[sid].participants = ps], "processAnswer", FALSE,
                IF ackOk THEN "Already answered" ELSE "error")
    ELSE
      LET isCorrect == answerIndex = question.correctAnswer
          sc == Score(rev, participant, question, isCorrect)
          response == [ questionIndex |-> questionIndex,
                        answerIndex |-> answerIndex,
                        time |-> responseTime,
                        isCorrect |-> isCorrect,
                        userId |-> userId,
                        isFirst |-> sc.isFirst,
                        points |-> sc.points,
                        streakBonus |-> sc.streakBonus ]
          participant2 == [participant EXCEPT
                             !.responses = push(@, response),
                             !.lastResponseTime = responseTime,
                             !.correctAnswers = sc.correctAnswers,
                             !.score = sc.score,
                             !.streak = sc.streak,
                             !.maxStreak = sc.maxStreak]
          question2 == [question EXCEPT
                          !.responses = push(@, response),
                          !.firstCorrectAnswer =
                             IF sc.isFirst THEN userId ELSE @]
          quiz2 == [quiz EXCEPT !.participants = [ps EXCEPT ![k] = participant2]]
      IN  Return(WriteQuestion([s EXCEPT !.qz[sid] = quiz2, !.now = responseTime],
                               sid, questionIndex + 1, question2),
                 "processAnswer", ackOk, IF ackOk THEN "" ELSE "error")

\* ------------------------------------------------- the bot's admin commands
\* what ctx.telegram.getChatMember settles with: a member status, or a throw
MemberStatuses == {"creator", "administrator", "member"}
Lookups == MemberStatuses \cup {"throws"}

isAdminEveryMember(lookup) == lookup \in MemberStatuses

\* isAdmin after its await: the catch block turns a throw into false
isAdmin(lookup) == lookup \in {"creator", "administrator"}

\* /start_quiz in a group, up to the await inside isAdmin
startQuizHandler(s, c) == Suspend(s, Await("startQuizHandler", 0, c, 0))

\* the lookup settled: a denial replies and returns; without a quiz id the
\* user's quizzes are listed; with one startQuizById runs
startQuizHandlerChecked(s, a, lookup, hasId) ==
  IF ~isAdmin(lookup)
  THEN Return(s, "startQuizHandler", FALSE, "permission denied")
  ELSE IF ~hasId
  THEN Return(s, "startQuizHandler", TRUE, "select a quiz")
  ELSE startQuizById(s, a.chat)

\* the start button: answerCbQuery is awaited first (a throw goes to the
\* catch block, which only replies), then isAdmin
startQuizFromIdHandler(s, c, answered) ==
  IF answered
  THEN Suspend(s, Await("startQuizFromIdHandler", 0, c, 0))
  ELSE Return(s, "startQuizFromIdHandler", FALSE, "error")

startQuizFromIdHandlerChecked(s, a, lookup) ==
  IF ~isAdmin(lookup)
  THEN Return(s, "startQuizFromIdHandler", FALSE, "permission denied")
  ELSE startQuizById(s, a.chat)

\* /end_quiz in a group, up to the await inside isAdmin
endQuizHandler(s, c) == Suspend(s, Await("endQuizHandler", 0, c, 0))

endQuizHandlerChecked(s, a, lookup) ==
  IF ~isAdmin(lookup)
  THEN Return(s, "endQuizHandler", FALSE, "permission denied")
  ELSE endQuiz(s, a.chat)

\* ------------------------------------------------------- countdown and timers
\* quiz.js updateCountdown after its editMessageText settled, n the value
\* of countdown when the callback started.  outcome "notModified" is the
\* error the catch block singles out.
updateCountdownResume(s, a, outcome) ==
  IF a.n > 0 \/ outcome = "notModified"
  THEN SetTimer(s, Timer("updateCountdown", a.sid, a.chat, a.n - 1, "countdown"))
  ELSE nextQuestion(s, a.chat)

\* quiz.js updateTimer after timeRemaining-- and the edit of the timer
\* message settled; n is timeRemaining
updateTimerResume(s, a, outcome) ==
  LET again == SetTimer(s, Timer("updateTimer", a.sid, a.chat, a.n, "question"))
      index == s.qz[a.sid].currentQuestionIndex
  IN  IF outcome = "rateLimited" THEN again
      ELSE IF a.n > 0 THEN again
      ELSE IF outcome = "error"
      THEN SetTimer(s, Timer("questionTimeout", a.sid, a.chat, 0, "none"))
      ELSE handleQuestionTimeout(s, a.chat, index)

Take(s, t) == [s EXCEPT !.tm = @ (-) One(t)]
Resume(s, a) == [s EXCEPT !.aw = @ (-) One(a)]

Scheduled(kind) == {t \in BagToSet(timers) : t.kind = kind}
Suspended(pc) == {a \in BagToSet(awaiting) : a.pc = pc}
Copies(bag, elems) == BagCardinality([e \in elems |-> bag[e]])
Admins == {1}
Outcomes == {"ok", "notModified", "rateLimited", "error"}

\* ------------------------------------------------------------------- Init
Init ==
  /\ revision \in Revisions
  /\ activeQuizzes = [c \in Chats |-> 0]
  /\ quizzes = << >>
  /\ definitions = << >>
  /\ timers = EmptyBag
  /\ awaiting = EmptyBag
  /\ now = 1

\* ------------------------------------------------- calls from outside
CanCreate(b, c) == AlreadyActive(Cur, c) \/ Len(quizzes) < b.maxSessions

StartQuizSetup(b) ==
  \E c \in b.chats, adminId \in Admins :
    /\ CanCreate(b, c)
    /\ Apply(startQuizSetup(Cur, c, adminId))

\* the operator sends the questions of QuizData(b.maxQuestions), in order
AddQuestion(b) ==
  \E c \in b.chats :
    LET n == IF activeQuizzes[c] = 0 THEN 0
             ELSE Len(quizzes[activeQuizzes[c]].questions)
    IN  /\ n < b.maxQuestions
        /\ Apply(addQuestion(Cur, c, n % NumAnswers))

LoadAndStartQuiz_quiz_js(b) ==
  \E c \in b.chats, adminId \in Admins, quizData \in QuizDefinitions(b) :
    /\ revision = "quiz_js"
    /\ CanCreate(b, c)
    /\ Apply(loadAndStartQuiz_quiz_js(Cur, c, adminId, quizData))

LoadAndStartQuiz_part_004(b) ==
  \E c \in b.chats, adminId \in Admins, quizData \in QuizDefinitions(b) :
    /\ revision = "part_004"
    /\ Len(quizzes) < b.maxSessions
    /\ Apply(loadAndStartQuiz_part_004(Cur, c, adminId, quizData))

NextQuestion ==
  \E c \in Chats : Apply(nextQuestion(Cur, c))

\* an administrator may end over and over: bounded by what is still in flight
EndQuiz ==
  \E c \in Chats :
    /\ Copies(timers, Scheduled("evict")) + Copies(awaiting, Suspended("sendResults"))
         < MaxPending
    /\ Apply(endQuiz(Cur, c))

ProcessAnswer(b) ==
  \E c \in b.chats, userId \in b.users, questionIndex \in 0..(b.maxQuestions - 1),
     answerIndex \in Answers, responseTime \in {now, now + 1}, ackOk \in BOOLEAN :
    /\ responseTime <= MaxTime
    /\ Apply(processAnswer(revision, Cur, c, userId, questionIndex, answerIndex,
                           responseTime, ackOk))

\* ------------------------------------------------------- timeouts firing
UpdateCountdown ==
  \E t \in Scheduled("updateCountdown") :
    Apply(Suspend(Take(Cur, t), Await("countdownEdit", t.sid, t.chat, t.n)))

StartTimer ==
  \E t \in Scheduled("start") :
    Apply(Suspend(Take(Cur, t), Await("goEdit", t.sid, t.chat, 0)))

UpdateTimer ==
  \E t \in Scheduled("updateTimer") :
    Apply(Suspend(Take(Cur, t), Await("timerEdit", t.sid, t.chat, t.n - 1)))

QuestionTimeout ==
  \E t \in Scheduled("questionTimeout") :
    Apply(handleQuestionTimeout(Take(Cur, t), t.chat,
                                quizzes[t.sid].currentQuestionIndex))

Leaderboard ==
  \E t \in Scheduled("leaderboard") :
    Apply(Suspend(Take(Cur, t), Await("leaderboardSent", t.sid, t.chat, t.n)))

Intermission ==
  \E t \in Scheduled("nextQuestion") :
    Apply(nextQuestion(Take(Cur, t), t.chat))

Evict ==
  \E t \in Scheduled("evict") : Apply(evict(Take(Cur, t), t))

\* ------------------------------------------------------- awaits settling
Announced_quiz_js ==
  \E a \in Suspended("announce"), ok \in BOOLEAN :
    /\ revision = "quiz_js"
    /\ Apply(loadAndStartQuizResume("quiz_js", Resume(Cur, a), a, ok))

Announced_part_004 ==
  \E a \in Suspended("announce"), ok \in BOOLEAN :
    /\ revision = "part_004"
    /\ Apply(loadAndStartQuizResume("part_004", Resume(Cur, a), a, ok))

CountdownEdited ==
  \E a \in Suspended("countdownEdit"), outcome \in Outcomes \ {"rateLimited"} :
    /\ outcome = "notModified" => a.n >= 0
    /\ Apply(updateCountdownResume(Resume(Cur, a), a, outcome))

GoEdited ==
  \E a \in Suspended("goEdit") : Apply(nextQuestion(Resume(Cur, a), a.chat))

QuestionSent_quiz_js ==
  \E a \in Suspended("sendQuestion"), ok \in BOOLEAN :
    /\ revision = "quiz_js"
    /\ Apply(nextQuestionResume_quiz_js(Resume(Cur, a), a, ok))

QuestionSent_part_004 ==
  \E a \in Suspended("sendQuestion"), ok \in BOOLEAN :
    /\ revision = "part_004"
    /\ Apply(nextQuestionResume_part_004(Resume(Cur, a), a, ok))

TimerEdited ==
  \E a \in Suspended("timerEdit"), outcome \in Outcomes \ {"notModified"} :
    /\ outcome = "rateLimited" => a.n >= 0
    /\ Apply(updateTimerResume(Resume(Cur, a), a, outcome))

TimeoutShown_quiz_js ==
  \E a \in Suspended("timeoutShown"), ok \in BOOLEAN :
    /\ revision = "quiz_js"
    /\ Apply(handleQuestionTimeoutResume_quiz_js(Resume(Cur, a), a, ok))

TimeoutShown_part_004 ==
  \E a \in Suspended("timeoutShown"), ok \in BOOLEAN :
    /\ revision = "part_004"
    /\ Apply(handleQuestionTimeoutResume_part_004(Resume(Cur, a), a, ok))

LeaderboardSent ==
  \E a \in Suspended("leaderboardSent"), ok \in BOOLEAN :
    Apply(leaderboardResume(Resume(Cur, a), a, ok))

ResultsSent ==
  \E a \in Suspended("sendResults"), ok \in BOOLEAN :
    Apply(endQuizResume(Resume(Cur, a), a, ok))

\* ------------------------------------------------- the bot's start handler
StartQuizById(b) ==
  \E c \in b.chats :
    /\ Copies(awaiting, Suspended("getQuiz") \cup Suspended("startReply")) < MaxStarts
    /\ Apply(startQuizById(Cur, c))

QuizRead(b) ==
  \E a \in Suspended("getQuiz"), found \in BOOLEAN, n \in 0..b.maxQuestions :
    /\ ~found => n = 0
    /\ Apply(startQuizByIdRead(Resume(Cur, a), a, found, n))

StartReplied(b) ==
  \E a \in Suspended("startReply"), adminId \in Admins, ok \in BOOLEAN :
    /\ ok => IF revision = "quiz_js" THEN CanCreate(b, a.chat)
             ELSE Len(quizzes) < b.maxSessions
    /\ Apply(startQuizByIdLoad(revision, Resume(Cur, a), a, adminId, ok))

\* ------------------------------------------------- the bot's admin commands
AdminChecks ==
  Suspended("startQuizHandler") \cup Suspended("startQuizFromIdHandler")
    \cup Suspended("endQuizHandler")

StartQuizHandler(b) ==
  \E c \in b.chats :
    /\ Copies(awaiting, AdminChecks) < MaxChecks
    /\ Apply(startQuizHandler(Cur, c))

StartQuizFromIdHandler(b) ==
  \E c \in b.chats, answered \in BOOLEAN :
    /\ Copies(awaiting, AdminChecks) < MaxChecks
    /\ Apply(startQuizFromIdHandler(Cur, c, answered))

EndQuizHandler(b) ==
  \E c \in b.chats :
    /\ Copies(awaiting, AdminChecks) < MaxChecks
    /\ Apply(endQuizHandler(Cur, c))

CanStart == Copies(awaiting, Suspended("getQuiz") \cup Suspended("startReply")) < MaxStarts
CanEnd ==
  Copies(timers, Scheduled("evict")) + Copies(awaiting, Suspended("sendResults"))
    < MaxPending

StartQuizHandlerChecked ==
  \E a \in Suspended("startQuizHandler"), lookup \in Lookups, hasId \in BOOLEAN :
    /\ isAdmin(lookup) /\ hasId => CanStart
    /\ Apply(startQuizHandlerChecked(Resume(Cur, a), a, lookup, hasId))

StartQuizFromIdHandlerChecked ==
  \E a \in Suspended("startQuizFromIdHandler"), lookup \in Lookups :
    /\ isAdmin(lookup) => CanStart
    /\ Apply(startQuizFromIdHandlerChecked(Resume(Cur, a), a, lookup))

EndQuizHandlerChecked ==
  \E a \in Suspended("endQuizHandler"), lookup \in Lookups :
    /\ isAdmin(lookup) => CanEnd
    /\ Apply(endQuizHandlerChecked(Resume(Cur, a), a, lookup))

\* timeouts firing and awaits settling: the same in every specification
Callbacks ==
  \/ UpdateCountdown
  \/ StartTimer
  \/ UpdateTimer
  \/ QuestionTimeout
  \/ Leaderboard
  \/ Intermission
  \/ Evict
  \/ Announced_quiz_js
  \/ Announced_part_004
  \/ CountdownEdited
  \/ GoEdited
  \/ QuestionSent_quiz_js
  \/ QuestionSent_part_004
  \/ TimerEdited
  \/ TimeoutShown_quiz_js
  \/ TimeoutShown_part_004
  \/ LeaderboardSent
  \/ ResultsSent

Next ==
  \/ LoadAndStartQuiz_quiz_js(Bounds)
  \/ LoadAndStartQuiz_part_004(Bounds)
  \/ EndQuiz
  \/ ProcessAnswer(Bounds)
  \/ Callbacks

Spec == Init /\ [][Next]_vars

NextApi ==
  \/ StartQuizSetup(ApiBounds)
  \/ AddQuestion(ApiBounds)
  \/ LoadAndStartQuiz_quiz_js(ApiBounds)
  \/ LoadAndStartQuiz_part_004(ApiBounds)
  \/ NextQuestion
  \/ EndQuiz
  \/ ProcessAnswer(ApiBounds)
  \/ Callbacks

SpecApi == Init /\ [][NextApi]_vars

NextRestart ==
  \/ LoadAndStartQuiz_quiz_js(RestartBounds)
  \/ LoadAndStartQuiz_part_004(RestartBounds)
  \/ EndQuiz
  \/ ProcessAnswer(RestartBounds)
  \/ Callbacks

SpecRestart == Init /\ [][NextRestart]_vars

\* ===================================================================== claims
Sessions == DOMAIN quizzes
QuestionIndices == 0..(MaxQuestions - 1)
Min(S) == CHOOSE x \in S : \A y \in S : x <= y

\* --------------------------------------------------------------------- C1
\* C1: startQuizSetup and loadAndStartQuiz fail and leave the session store
\* unchanged whenever the chat has a registered session that is not
\* completed, and no step replaces a non-completed session by another one
\* (the chat keeps its session, or loses its entry to the eviction timeout).
C1_NonCompletedSessionReplaced ==
  /\ [](\A c \in Chats, adminId \in Admins, quizData \in QuizDefinitions(RestartBounds) :
          AlreadyActive(Cur, c) =>
            LET setup == startQuizSetup(Cur, c, adminId)
                load == loadAndStartQuiz(revision, Cur, c, adminId, quizData)
            IN  /\ ~setup.ret.success
                /\ setup.aq = activeQuizzes /\ setup.qz = quizzes
                /\ ~load.ret.success
                /\ load.aq = activeQuizzes /\ load.qz = quizzes)
  /\ [][\A c \in Chats :
          AlreadyActive(Cur, c) => activeQuizzes'[c] \in {activeQuizzes[c], 0}]_vars

\* --------------------------------------------------------------------- C2
\* the positions of a response list that hold an answer of userId to
\* question questionIndex
Recorded(responses, userId, questionIndex) ==
  {k \in 1..Len(responses) :
     /\ responses[k].userId = userId
     /\ responses[k].questionIndex = questionIndex}

\* C2: every session records at most one response per participant and
\* question index, in the participant's response list and in the question's
\* response list, whatever the interleaving of processAnswer calls.
C2_NoDoubleCounting ==
  \A sid \in Sessions, userId \in 1..NumUsers, i \in QuestionIndices :
    /\ \A k \in 1..Len(quizzes[sid].participants) :
         Cardinality(Recorded(quizzes[sid].participants[k].responses, userId, i)) <= 1
    /\ \A q \in 1..Len(quizzes[sid].questions) :
         Cardinality(Recorded(quizzes[sid].questions[q].responses, userId, i)) <= 1

\* both users answered the running question, and a second submission of one
\* of them is turned away as a duplicate
C2_Witness ==
  \E c \in Chats :
    /\ activeQuizzes[c] # 0
    /\ processAnswerGuard(Cur, c, quizzes[activeQuizzes[c]].currentQuestionIndex)
    /\ LET quiz == quizzes[activeQuizzes[c]]
           i == quiz.currentQuestionIndex
       IN  /\ Len(quiz.questions[i + 1].responses) = NumUsers
           /\ \A userId \in 1..NumUsers, answerIndex \in Answers :
                LET again == processAnswer(revision, Cur, c, userId, i,
                                           answerIndex, now, TRUE)
                IN  again.ret.message = "Already answered" /\ again.qz = quizzes

\* --------------------------------------------------------------------- C3
\* question i of quiz is over: the session left it behind, or stands in the
\* intermission handleQuestionTimeout opened for it, or was ended on it
Closed(quiz, i) ==
  /\ i + 1 \in 1..Len(quiz.questions)
  /\ \/ quiz.currentQuestionIndex > i
     \/ /\ quiz.currentQuestionIndex = i
        /\ quiz.status \in {"intermission", "completed"}

\* C3: once handleQuestionTimeout moved a session to intermission for
\* question i, the question stays closed, and every processAnswer for
\* question i is rejected and leaves every participant's score,
\* correctAnswers, streak and responses and every question's responses as
\* they are.
C3_LateAnswersRejected ==
  /\ [](\A sid \in Sessions, i \in QuestionIndices :
          Closed(quizzes[sid], i) =>
            \A c \in Chats, userId \in 1..NumUsers, answerIndex \in Answers,
               responseTime \in {now, now + 1}, ackOk \in BOOLEAN :
              LET late == processAnswer(revision, Cur, c, userId, i, answerIndex,
                                        responseTime, ackOk)
              IN  /\ late.qz[sid] = quizzes[sid]
                  /\ activeQuizzes[c] = sid => ~late.ret.success)
  /\ [][\A sid \in Sessions, i \in QuestionIndices :
          Closed(quizzes[sid], i) =>
            /\ Closed(quizzes'[sid], i)
            /\ quizzes'[sid].questions[i + 1].responses
                 = quizzes[sid].questions[i + 1].responses]_vars

\* the timeout of a question somebody answered has run: the session is in
\* the intermission with the handler suspended, the answer on record
C3_Witness ==
  \E a \in Suspended("timeoutShown") :
    /\ quizzes[a.sid].status = "intermission"
    /\ quizzes[a.sid].currentQuestionIndex = a.n
    /\ Len(quizzes[a.sid].questions[a.n + 1].responses) > 0
    /\ Len(quizzes[a.sid].questions[a.n + 1].responses) < NumUsers

\* --------------------------------------------------------------------- C4
FirstFlagged(question) ==
  {k \in 1..Len(question.responses) : question.responses[k].isFirst}
CorrectOnes(question) ==
  {k \in 1..Len(question.responses) : question.responses[k].isCorrect}

\* C4: of a question's responses at most one has isFirst; it is the earliest
\* correct response of the question's list; firstCorrectAnswer names its
\* user, and is written at most once.
C4_SingleFirstCorrect ==
  /\ [](\A sid \in Sessions : \A q \in 1..Len(quizzes[sid].questions) :
          LET question == quizzes[sid].questions[q] IN
            /\ Cardinality(FirstFlagged(question)) <= 1
            /\ IF CorrectOnes(question) = {}
               THEN FirstFlagged(question) = {} /\ question.firstCorrectAnswer = 0
               ELSE /\ FirstFlagged(question) = {Min(CorrectOnes(question))}
                    /\ question.firstCorrectAnswer
                         = question.responses[Min(CorrectOnes(question))].userId)
  /\ [][\A sid \in Sessions : \A q \in 1..Len(quizzes[sid].questions) :
          quizzes[sid].questions[q].firstCorrectAnswer # 0 =>
            quizzes'[sid].questions[q].firstCorrectAnswer
              = quizzes[sid].questions[q].firstCorrectAnswer]_vars

\* a question two users answered correctly, after a wrong answer or not
C4_Witness ==
  \E sid \in Sessions : \E q \in 1..Len(quizzes[sid].questions) :
    /\ Cardinality(CorrectOnes(quizzes[sid].questions[q])) = 2
    /\ quizzes[sid].questions[q].firstCorrectAnswer # 0

\* --------------------------------------------------------------------- C5
\* the number of correct responses at the end of a response list
RECURSIVE TrailingCorrect(_)
TrailingCorrect(responses) ==
  IF responses = << >> \/ ~responses[Len(responses)].isCorrect THEN 0
  ELSE 1 + TrailingCorrect(SubSeq(responses, 1, Len(responses) - 1))

\* C5: a participant's streak is 0 after an accepted wrong answer and k
\* after k consecutive correct answers, and maxStreak >= streak always.
C5_StreakCounts ==
  \A sid \in Sessions : \A k \in 1..Len(quizzes[sid].participants) :
    LET participant == quizzes[sid].participants[k] IN
      /\ participant.streak = JsNum(TrailingCorrect(participant.responses))
      /\ JsGe(participant.maxStreak, participant.streak)

\* --------------------------------------------------------------------- C6
\* what userId has on record in quiz
ParticipantOf(quiz, userId) ==
  IF ParticipantIndex(quiz, userId) = 0
  THEN createParticipant(userId)
  ELSE quiz.participants[ParticipantIndex(quiz, userId)]

\* the step accepted an answer of userId in session sid
Accepted(sid, userId) ==
  Len(ParticipantOf(quizzes'[sid], userId).responses)
    = Len(ParticipantOf(quizzes[sid], userId).responses) + 1

\* the points the base + first + streak scheme owes for the answer the step
\* accepted
SchemePoints(sid, userId) ==
  LET after == ParticipantOf(quizzes'[sid], userId)
      response == after.responses[Len(after.responses)]
      question == quizzes[sid].questions[response.questionIndex + 1]
      isCorrect == response.answerIndex = question.correctAnswer
  IN  IF ~isCorrect THEN 0
      ELSE 1 + (IF question.firstCorrectAnswer = 0 THEN 1 ELSE 0)
             + (IF JsGe(after.streak, JsNum(2)) THEN 1 ELSE 0)

\* the points first-correct-only scoring owes for it
FirstOnlyPoints(sid, userId) ==
  LET after == ParticipantOf(quizzes'[sid], userId)
      response == after.responses[Len(after.responses)]
      question == quizzes[sid].questions[response.questionIndex + 1]
      isCorrect == response.answerIndex = question.correctAnswer
  IN  IF isCorrect /\ question.firstCorrectAnswer = 0 THEN 1 ELSE 0

\* the response the step recorded carries points, and the score grew by them
Awarded(sid, userId, points) ==
  LET before == ParticipantOf(quizzes[sid], userId)
      after == ParticipantOf(quizzes'[sid], userId)
  IN  /\ after.responses[Len(after.responses)].points = points
      /\ after.score = before.score + points

Answerers(question) ==
  [k \in 1..Len(question.responses) |-> question.responses[k].userId]
CorrectAnswerers(question) ==
  {question.responses[k].userId : k \in CorrectOnes(question)}

\* the two-question session of the example has run to its end: userA then
\* userB answered question 1 correctly, userA answered question 2 correctly
\* and userB wrongly
Scenario(quiz, userA, userB) ==
  /\ userA # userB
  /\ Len(quiz.questions) = 2
  /\ quiz.status = "completed"
  /\ Answerers(quiz.questions[1]) = <<userA, userB>>
  /\ CorrectAnswerers(quiz.questions[1]) = {userA, userB}
  /\ Answerers(quiz.questions[2]) \in {<<userA, userB>>, <<userB, userA>>}
  /\ CorrectAnswerers(quiz.questions[2]) = {userA}

\* C7: after the scenario A's score is 5, B's score is 1, and the
\* leaderboard lists A before B.
C7_ScenarioScores ==
  \A sid \in Sessions, userA \in 1..NumUsers, userB \in 1..NumUsers :
    Scenario(quizzes[sid], userA, userB) =>
      /\ ParticipantOf(quizzes[sid], userA).score = 5
      /\ ParticipantOf(quizzes[sid], userB).score = 1
      /\ calculateResults(quizzes[sid]) = <<userA, userB>>

\* --------------------------------------------------------------------- C8
\* C8: handleQuestionTimeout(chat, i) changes nothing (session, timers,
\* suspended handlers) unless the chat's registered session is running with
\* currentQuestionIndex = i.
C8_StaleTimeoutIsNoOp ==
  \A c \in Chats, i \in -1..MaxQuestions :
    ~( /\ activeQuizzes[c] # 0
       /\ quizzes[activeQuizzes[c]].status = "running"
       /\ quizzes[activeQuizzes[c]].currentQuestionIndex = i )
    => handleQuestionTimeout(Cur, c, i) = Cur

\* a question timeout is about to fire on a session that is registered but
\* no longer running
C8_Witness ==
  \E t \in Scheduled("questionTimeout") :
    /\ activeQuizzes[t.chat] = t.sid
    /\ quizzes[t.sid].status # "running"
    /\ quizzes[t.sid].currentQuestionIndex \in QuestionIndices
    /\ handleQuestionTimeout(Take(Cur, t), t.chat,
                             quizzes[t.sid].currentQuestionIndex)
         = Take(Cur, t)

\* --------------------------------------------------------------------- C9
\* C9: once a session is completed, no step (timer callback, answer,
\* nextQuestion, addQuestion, endQuiz) changes its status, its
\* currentQuestionIndex, its questions or its participants.
C9_CompletedIsTerminal ==
  [][\A sid \in Sessions :
       quizzes[sid].status = "completed" =>
         /\ quizzes'[sid].status = "completed"
         /\ quizzes'[sid].currentQuestionIndex = quizzes[sid].currentQuestionIndex
         /\ quizzes'[sid].questions = quizzes[sid].questions
         /\ quizzes'[sid].participants = quizzes[sid].participants]_vars

\* a completed session with an answer on record, still registered, with an
\* intermission timeout of its own about to call nextQuestion
C9_Witness ==
  \E t \in Scheduled("nextQuestion") :
    /\ activeQuizzes[t.chat] = t.sid
    /\ quizzes[t.sid].status = "completed"
    /\ quizzes[t.sid].currentQuestionIndex < Len(quizzes[t.sid].questions)
    /\ Len(quizzes[t.sid].participants) > 0

\* --------------------------------------------------------------------- C10
\* the steps that run nextQuestion: the direct call, the intermission
\* timeout, and the end of either revision's countdown
RunsNextQuestion ==
  NextQuestion \/ Intermission \/ GoEdited \/ CountdownEdited

\* C10: a session's currentQuestionIndex never decreases, and every change
\* of it is an increment by one made by a run of nextQuestion.
C10_IndexAdvancesByOne ==
  [][\A sid \in Sessions :
       quizzes'[sid].currentQuestionIndex # quizzes[sid].currentQuestionIndex =>
         /\ quizzes'[sid].currentQuestionIndex
              = quizzes[sid].currentQuestionIndex + 1
         /\ RunsNextQuestion]_vars

\* a session on its second question
C10_Witness ==
  \E sid \in Sessions :
    /\ quizzes[sid].currentQuestionIndex = 1
    /\ quizzes[sid].status = "running"

CountdownKinds == {"updateCountdown", "start"}
DeadlineKinds == {"updateTimer", "questionTimeout"}
IntermissionKinds == {"nextQuestion"}

\* the scheduled, not yet fired timeouts of these kinds that session sid set
PendingTimers(sid, kinds) ==
  Copies(timers, {t \in BagToSet(timers) : t.sid = sid /\ t.kind \in kinds})

\* C12: at every point a session has at most one scheduled, not yet fired
\* timer among its start-countdown, question-deadline and intermission
\* timers, the ones scheduled without being stored in quiz.timers included.
C12_SingleTimer ==
  \A sid \in Sessions :
    PendingTimers(sid, CountdownKinds \cup DeadlineKinds \cup IntermissionKinds) <= 1

\* --------------------------------------------------------------------- C13
\* the engine as the bot wires it, with every scheduled timeout firing and
\* every awaited transport call settling (resolved or rejected) in the end
NextLive ==
  \/ LoadAndStartQuiz_quiz_js(LiveBounds)
  \/ LoadAndStartQuiz_part_004(LiveBounds)
  \/ EndQuiz
  \/ ProcessAnswer(LiveBounds)
  \/ Callbacks

SpecLive == Init /\ [][NextLive]_vars /\ WF_vars(Callbacks)

\* C13: every session loadAndStartQuiz started reaches status completed in
\* the end, whether the transport calls on the way succeed or fail; stated
\* for the sessions whose start went through, from their first question on.
C13_EventuallyCompleted ==
  \A sid \in 1..LiveMaxSessions :
    (sid \in Sessions /\ quizzes[sid].status = "running")
      ~> (sid \in Sessions /\ quizzes[sid].status = "completed")

\* --------------------------------------------------------------------- C14
\* C14: in no quiescent state (no handler suspended at an await) is a
\* chat's session running without a question-deadline timeout scheduled for
\* the chat, whatever happened to the sends of nextQuestion.
C14_RunningHasDeadline ==
  \A c \in Chats :
    /\ awaiting = EmptyBag
    /\ activeQuizzes[c] # 0
    /\ quizzes[activeQuizzes[c]].status = "running"
    => \E t \in BagToSet(timers) : t.chat = c /\ t.kind \in DeadlineKinds

\* --------------------------------------------------------------------- C15
\* the engine driven through startQuizById
NextStart ==
  \/ StartQuizById(StartBounds)
  \/ QuizRead(StartBounds)
  \/ StartReplied(StartBounds)
  \/ EndQuiz
  \/ ProcessAnswer(StartBounds)
  \/ Callbacks

SpecStart == Init /\ [][NextStart]_vars

\* C15: of two start requests for a chat whose handlers interleave at their
\* awaits at most one registers a session: a handler that reaches
\* loadAndStartQuiz while the chat has a session that is not completed
\* leaves that session registered.
C15_OneStartSucceeds ==
  [][\A c \in Chats :
       AlreadyActive(Cur, c) /\ StartReplied(StartBounds)
         => activeQuizzes'[c] = activeQuizzes[c]]_vars

\* --------------------------------------------------------------------- C16
\* C16: endQuiz takes a registered session of any status to completed, and
\* a completed session has no countdown, question-deadline or intermission
\* timeout scheduled, also when endQuiz ran while a timer callback or
\* nextQuestion of the session was suspended at an await.
C16_EndQuizCancelsTimers ==
  /\ \A c \in Chats :
       activeQuizzes[c] # 0 =>
         endQuiz(Cur, c).qz[activeQuizzes[c]].status = "completed"
  /\ \A sid \in Sessions :
       quizzes[sid].status = "completed" =>
         PendingTimers(sid, CountdownKinds \cup DeadlineKinds \cup IntermissionKinds) = 0

\* --------------------------------------------------------------------- C17
\* C17: endQuiz on a completed session changes nothing of the session
\* (status, endTime, scores), sends no second leaderboard (no handler is
\* suspended at the results message) and schedules no second eviction.
C17_EndQuizIdempotent ==
  \A c \in Chats :
    activeQuizzes[c] # 0 /\ quizzes[activeQuizzes[c]].status = "completed" =>
      LET again == endQuiz(Cur, c)
          sending == Await("sendResults", activeQuizzes[c], c, 0)
      IN  /\ again.qz = quizzes
          /\ again.aw = awaiting
          /\ BagIn(sending, again.aw) =>
               endQuizResume(Resume(again, sending), sending, TRUE).tm = timers

\* --------------------------------------------------------------------- C18
\* two participants the comparator cannot tell apart
Tied(p, q) ==
  /\ p.score = q.score
  /\ p.correctAnswers = q.correctAnswers
  /\ p.lastResponseTime = q.lastResponseTime

\* C18: the final leaderboard does not depend on the order in which the
\* participants first answered: participants that tie on score,
\* correctAnswers and lastResponseTime are listed by ascending userId.
C18_TiesByUserId ==
  \A sid \in Sessions :
    quizzes[sid].status = "completed" =>
      LET board == calculateResults(quizzes[sid]) IN
        \A i \in 1..Len(board), j \in 1..Len(board) :
          /\ i < j
          /\ Tied(ParticipantOf(quizzes[sid], board[i]),
                  ParticipantOf(quizzes[sid], board[j]))
          => board[i] < board[j]

\* --------------------------------------------------------------------- C19
\* what calculateResults reads of a participant, as processAnswer leaves
\* it: quiz.js scores at most one point per correct answer; part_004 scores
\* one or two (base, first) while fewer than three questions were asked
ParticipantKeys(rev) ==
  { k \in [score : 0..(2 * ResultsMaxCorrect),
           correctAnswers : 0..ResultsMaxCorrect,
           lastResponseTime : 1..ResultsMaxTime] :
      IF rev = "quiz_js" THEN k.score <= k.correctAnswers
      ELSE k.correctAnswers <= k.score /\ k.score <= 2 * k.correctAnswers }

\* the participants Map of a session: some users, in the order they first
\* answered, each with keys of ParticipantKeys
ParticipantMaps(rev) ==
  UNION { { ps \in [1..n -> [userId : 1..ResultsUsers, keys : ParticipantKeys(rev)]] :
              \A i \in 1..n, j \in 1..n : i # j => ps[i].userId # ps[j].userId } :
          n \in 0..ResultsUsers }

\* a session on its last question with the participants ps
AnsweredQuiz(ps) ==
  [createNewQuiz(1) EXCEPT
     !.status = "running",
     !.questions = QuizData(ResultsMaxCorrect),
     !.currentQuestionIndex = ResultsMaxCorrect - 1,
     !.participants =
        [i \in 1..Len(ps) |->
           [createParticipant(ps[i].userId) EXCEPT
              !.score = ps[i].keys.score,
              !.correctAnswers = ps[i].keys.correctAnswers,
              !.lastResponseTime = ps[i].keys.lastResponseTime]]]

InitResults ==
  /\ revision \in Revisions
  /\ \E ps \in ParticipantMaps(revision) : quizzes = <<AnsweredQuiz(ps)>>
  /\ definitions = <<quizzes[1].questions>>
  /\ \E c \in 1..NumChats :
       activeQuizzes = [d \in Chats |-> IF d = c THEN 1 ELSE 0]
  /\ timers = EmptyBag
  /\ awaiting = EmptyBag
  /\ now = ResultsMaxTime

\* the session is ended: endQuiz computes the leaderboard and sends it
NextResults ==
  \/ EndQuiz
  \/ ResultsSent
  \/ Evict

SpecResults == InitResults /\ [][NextResults]_vars

\* p may stand before q in the leaderboard
MayPrecede(p, q) ==
  \/ p.score > q.score
  \/ p.score = q.score /\ p.correctAnswers > q.correctAnswers
  \/ /\ p.score = q.score /\ p.correctAnswers = q.correctAnswers
     /\ p.lastResponseTime <= q.lastResponseTime

\* C19: in the final leaderboard, whenever p is listed before q: p's score
\* is higher, or the scores are equal and p has more correct answers, or
\* both are equal and p.lastResponseTime <= q.lastResponseTime.
C19_LeaderboardOrder ==
  \A sid \in Sessions :
    quizzes[sid].status = "completed" =>
      LET board == calculateResults(quizzes[sid]) IN
        /\ Len(board) = Len(quizzes[sid].participants)
        /\ \A i \in 1..Len(board), j \in 1..Len(board) :
             i < j => MayPrecede(ParticipantOf(quizzes[sid], board[i]),
                                 ParticipantOf(quizzes[sid], board[j]))

\* a completed session of three participants whose leaderboard reverses the
\* order they answered in: by score, by correct answers and by time
C19_Witness ==
  \E sid \in Sessions :
    LET ps == quizzes[sid].participants IN
      /\ quizzes[sid].status = "completed"
      /\ Len(ps) = 3
      /\ calculateResults(quizzes[sid]) = <<ps[3].userId, ps[2].userId, ps[1].userId>>
      /\ ps[3].score = ps[2].score /\ ps[3].correctAnswers > ps[2].correctAnswers
      /\ ps[2].score = ps[1].score /\ ps[2].correctAnswers = ps[1].correctAnswers
      /\ ps[2].lastResponseTime < ps[1].lastResponseTime

\* --------------------------------------------------------------------- C20
\* the engine as the bot wires it, with sessions in several chats
NextChats ==
  \/ LoadAndStartQuiz_quiz_js(IsolationBounds)
  \/ LoadAndStartQuiz_part_004(IsolationBounds)
  \/ EndQuiz
  \/ ProcessAnswer(IsolationBounds)
  \/ Callbacks

SpecChats == Init /\ [][NextChats]_vars

\* what belongs to chat c: its entry of the store, the session registered
\* for it, the timeouts scheduled and the handlers suspended for it
TimersOf(c) ==
  [t \in {x \in BagToSet(timers) : x.chat = c} |-> timers[t]]
HandlersOf(c) ==
  [a \in {x \in BagToSet(awaiting) : x.chat = c} |-> awaiting[a]]
ChatState(c) ==
  << activeQuizzes[c],
     IF activeQuizzes[c] = 0 THEN << >> ELSE <<quizzes[activeQuizzes[c]]>>,
     TimersOf(c), HandlersOf(c) >>

\* C20: every step (start, answer, timer callback, nextQuestion, endQuiz,
\* eviction) is performed for one chat and leaves every other chat's
\* registered session, timers and suspended handlers unchanged.
C20_ChatsIsolated ==
  [][\E a \in Chats : \A b \in Chats \ {a} : ChatState(b)' = ChatState(b)]_vars

\* two chats with a running session each, one of them with an answer on
\* record and both with a timeout scheduled
C20_Witness ==
  \E a \in Chats, b \in Chats :
    /\ a # b
    /\ activeQuizzes[a] # 0 /\ activeQuizzes[b] # 0
    /\ activeQuizzes[a] # activeQuizzes[b]
    /\ quizzes[activeQuizzes[a]].status = "running"
    /\ quizzes[activeQuizzes[b]].status = "running"
    /\ Len(quizzes[activeQuizzes[a]].participants) > 0
    /\ TimersOf(a) # EmptyBag /\ TimersOf(b) # EmptyBag

\* --------------------------------------------------------------------- C21
\* the engine driven through the bot's admin commands
NextAdmin ==
  \/ StartQuizHandler(AdminBounds)
  \/ StartQuizFromIdHandler(AdminBounds)
  \/ EndQuizHandler(AdminBounds)
  \/ StartQuizHandlerChecked
  \/ StartQuizFromIdHandlerChecked
  \/ EndQuizHandlerChecked
  \/ QuizRead(AdminBounds)
  \/ StartReplied(AdminBounds)
  \/ ProcessAnswer(AdminBounds)
  \/ Callbacks

SpecAdmin == Init /\ [][NextAdmin]_vars

\* the requesting user is no creator or administrator of the chat, or the
\* membership lookup threw
NotAdmin == Lookups \ {"creator", "administrator"}

\* the handler whose admin check settled left the store, every session and
\* every timeout as they were and is suspended nowhere
Denied(s, a) ==
  /\ ~s.ret.success
  /\ s.aq = activeQuizzes
  /\ s.qz = quizzes
  /\ s.tm = timers
  /\ s.aw = awaiting (-) One(a)

\* C21: when the membership lookup of startQuizHandler, of
\* startQuizFromIdHandler or of endQuizHandler settles with a status that
\* is neither creator nor administrator, or throws, the handler returns
\* having created, modified and ended no session, and without a second
\* lookup.
C21_NonAdminDenied ==
  \A lookup \in NotAdmin :
    /\ \A a \in Suspended("startQuizHandler"), hasId \in BOOLEAN :
         Denied(startQuizHandlerChecked(Resume(Cur, a), a, lookup, hasId), a)
    /\ \A a \in Suspended("startQuizFromIdHandler") :
         Denied(startQuizFromIdHandlerChecked(Resume(Cur, a), a, lookup), a)
    /\ \A a \in Suspended("endQuizHandler") :
         Denied(endQuizHandlerChecked(Resume(Cur, a), a, lookup), a)

\* an end command waiting for its lookup in a chat whose session is
\* running with an answer on record: an administrator's command would
\* end that session
C21_Witness ==
  \E a \in Suspended("endQuizHandler") :
    /\ activeQuizzes[a.chat] # 0
    /\ quizzes[activeQuizzes[a.chat]].status = "running"
    /\ Len(quizzes[activeQuizzes[a.chat]].participants) > 0
    /\ endQuizHandlerChecked(Resume(Cur, a), a, "creator").qz # quizzes

\* --------------------------------------------------------------------- C22
\* getQuizStatus(chatId) returns session sid
Returned(sid) == \E c \in Chats : activeQuizzes[c] = sid

\* C22: a completed session stays returned by getQuizStatus until an
\* eviction timeout fires, and every completed session is removed from the
\* store in the end, also when the final leaderboard could not be sent.
C22_CompletedUntilEvicted ==
  /\ [][\A sid \in Sessions :
          quizzes[sid].status = "completed" /\ Returned(sid) /\ ~Returned(sid)'
            => Evict]_vars
  /\ \A sid \in 1..LiveMaxSessions :
       (sid \in Sessions /\ quizzes[sid].status = "completed" /\ Returned(sid))
         ~> ~Returned(sid)

\* --------------------------------------------------------------------- C23
\* the engine's exported functions where every session comes from
\* loadAndStartQuiz
NextLoaded ==
  \/ LoadAndStartQuiz_quiz_js(ApiBounds)
  \/ LoadAndStartQuiz_part_004(ApiBounds)
  \/ AddQuestion(ApiBounds)
  \/ NextQuestion
  \/ EndQuiz
  \/ ProcessAnswer(ApiBounds)
  \/ Callbacks

SpecLoaded == Init /\ [][NextLoaded]_vars

\* what a session asks: the correct answer of each question, in order
QuestionList(quiz) ==
  [i \in 1..Len(quiz.questions) |-> quiz.questions[i].correctAnswer]

\* C23: the question list of a session registered by loadAndStartQuiz
\* (length, order, correct answers) is changed by no step, the start
\* countdown included, during which status is setup.
C23_QuestionsFixed ==
  [][\A sid \in Sessions :
       QuestionList(quizzes'[sid]) = QuestionList(quizzes[sid])]_vars

\* --------------------------------------------------------------------- C24
\* C24: the quiz definition passed to loadAndStartQuiz is never modified
\* by the session loaded from it: its question objects keep the state they
\* were passed in (no responses, no firstCorrectAnswer).
C24_DefinitionUntouched ==
  \A sid \in DOMAIN definitions :
    definitions[sid] = QuizData(Len(definitions[sid]))

\* --------------------------------------------------------------------- C25
\* C25: an eviction timeout, scheduled by endQuiz for the session it
\* completed, removes no other session: a session that endQuiz never ran
\* on (its endTime is unset), registered when the timeout fires, is still
\* registered afterwards.
C25_EvictionSparesNewSession ==
  [][Evict =>
       \A c \in Chats :
         activeQuizzes[c] # 0 /\ quizzes[activeQuizzes[c]].endTime = 0
           => activeQuizzes'[c] = activeQuizzes[c]]_vars

\* --------------------------------------------------------------------- C26
\* a countdown, question-deadline or intermission timeout scheduled for a
\* session that has ended, in a chat that has a later session registered
Stale(t) ==
  /\ t.kind \in CountdownKinds \cup DeadlineKinds \cup IntermissionKinds
  /\ t.sid \in Sessions
  /\ quizzes[t.sid].status = "completed"
  /\ activeQuizzes[t.chat] > t.sid

\* the step is the callback of timeout t: the only way a timeout of a
\* session that is not registered leaves the timer queue
Fires(t) == CopiesIn(t, timers') < CopiesIn(t, timers)

\* C26: the callback of a countdown, question-deadline or intermission
\* timeout of an ended session leaves the status and the
\* currentQuestionIndex of the later session of its chat as they are.
C26_StaleCallbackSparesNewSession ==
  [][\A t \in BagToSet(timers) :
       Stale(t) /\ Fires(t) =>
         LET new == activeQuizzes[t.chat] IN
           /\ quizzes'[new].status = quizzes[new].status
           /\ quizzes'[new].currentQuestionIndex
                = quizzes[new].currentQuestionIndex]_vars

\* --------------------------------------------------------------------- C27
Transitions ==
  { <<"setup", "running">>, <<"running", "intermission">>,
    <<"intermission", "running">> }
    \cup { <<status, "completed">> : status \in {"setup", "running", "intermission"} }

SuspendedAt(sid, pc) ==
  Copies(awaiting, {a \in BagToSet(awaiting) : a.sid = sid /\ a.pc = pc})

Stays(t) == CopiesIn(t, timers') >= CopiesIn(t, timers)
\* the deadline callback suspended at its edit of the timer message stays
\* suspended over the step
StaysSuspended(a) == CopiesIn(a, awaiting') >= CopiesIn(a, awaiting)

\* C30: the index a question-deadline callback passes to
\* handleQuestionTimeout is the currentQuestionIndex of the time its
\* timeout was armed: while the timeout is scheduled, and while its
\* callback is suspended before the call, the session's index stays.
C30_DeadlineIndexAsArmed ==
  [][/\ \A t \in BagToSet(timers) :
          t.kind \in DeadlineKinds /\ Stays(t) =>
            quizzes'[t.sid].currentQuestionIndex
              = quizzes[t.sid].currentQuestionIndex
     /\ \A a \in Suspended("timerEdit") :
          StaysSuspended(a) =>
            quizzes'[a.sid].currentQuestionIndex
              = quizzes[a.sid].currentQuestionIndex]_vars

\* --------------------------------------------------------------------- C31
\* the submissions a user can make for the question of chat c now open
Submissions == (1..NumUsers) \X Answers \X BOOLEAN

\* userId has a response to question questionIndex on record in quiz
Answered(quiz, userId, questionIndex) ==
  /\ ParticipantIndex(quiz, userId) # 0
  /\ alreadyAnswered(ParticipantOf(quiz, userId), questionIndex)

\* C31: a second submission of a participant for the question they already
\* answered returns failure with the reason "Already answered" and leaves
\* every session as it was: score, correctAnswers, streak,
\* lastResponseTime, both response lists and the recorded answerIndex.
C31_DuplicateRejected ==
  \A c \in Chats, sub \in Submissions :
    Registered(Cur, c) =>
      LET quiz == quizzes[activeQuizzes[c]]
          i == quiz.currentQuestionIndex
          again == processAnswer(revision, Cur, c, sub[1], i, sub[2], now, sub[3])
      IN  processAnswerGuard(Cur, c, i) /\ Answered(quiz, sub[1], i) =>
            /\ ~again.ret.success
            /\ again.ret.message = "Already answered"
            /\ again.qz = quizzes

\* --------------------------------------------------------------------- C32
\* the cases in which an answer is turned away: a duplicate of a recorded
\* answer; an answer to a question whose timeout has fired (the session is
\* past it, or in the intermission after it); no active question otherwise
RejectionCase(quiz, userId, questionIndex) ==
  IF quiz.status = "running" /\ quiz.currentQuestionIndex = questionIndex
  THEN IF Answered(quiz, userId, questionIndex) THEN "duplicate" ELSE "none"
  ELSE IF /\ questionIndex + 1 \in 1..Len(quiz.questions)
          /\ \/ quiz.currentQuestionIndex > questionIndex
             \/ /\ quiz.currentQuestionIndex = questionIndex
                /\ quiz.status = "intermission"
  THEN "locked"
  ELSE "no active question"

\* C32: the reason returned with a rejected answer tells the case: two
\* rejections of different cases (no active question, duplicate answer,
\* question locked by its timeout) never carry the same reason.
C32_ReasonTellsCase ==
  \A c \in Chats, sub \in Submissions, i \in QuestionIndices, j \in QuestionIndices :
    Registered(Cur, c) =>
      LET quiz == quizzes[activeQuizzes[c]]
          one == processAnswer(revision, Cur, c, sub[1], i, sub[2], now, TRUE)
          other == processAnswer(revision, Cur, c, sub[1], j, sub[2], now, TRUE)
      IN  /\ ~one.ret.success /\ ~other.ret.success
          /\ RejectionCase(quiz, sub[1], i) # RejectionCase(quiz, sub[1], j)
          => one.ret.message # other.ret.message

\* --------------------------------------------------------------------- C33
\* C33: processAnswer returns success exactly when it recorded a response:
\* a call that returns failure has changed no session, also when it is the
\* acknowledgment that failed.
C33_SuccessIffRecorded ==
  \A c \in Chats, sub \in Submissions, i \in QuestionIndices :
    LET answered == processAnswer(revision, Cur, c, sub[1], i, sub[2], now, sub[3])
    IN  answered.ret.success <=> answered.qz # quizzes

\* --------------------------------------------------------------------- C34
\* list after is list before, or list before with one entry appended
IsPrefix(before, after) ==
  /\ Len(before) <= Len(after)
  /\ SubSeq(after, 1, Len(before)) = before

\* the response lists of session sid: one per question, one per participant
\* (a participant not yet in the map has none)
QuestionResponses(quiz, i) == quiz.questions[i].responses
ParticipantResponses(quiz, userId) == ParticipantOf(quiz, userId).responses

\* C34: response lists are append-only, and a step that records an answer
\* appends one response to the list of the current question and the same
\* response to the list of its participant, and nothing to any other list.
C34_ResponsesAppendOnly ==
  [][\A sid \in Sessions :
       LET before == quizzes[sid]
           after == quizzes'[sid]
           grown == {i \in 1..Len(before.questions) :
                       QuestionResponses(after, i) # QuestionResponses(before, i)}
           growers == {u \in 1..NumUsers :
                         ParticipantResponses(after, u) # ParticipantResponses(before, u)}
       IN  after.participants # before.participants \/ after.questions # before.questions =>
           /\ \A i \in 1..Len(before.questions) :
                IsPrefix(QuestionResponses(before, i), QuestionResponses(after, i))
           /\ \A u \in 1..NumUsers :
                IsPrefix(ParticipantResponses(before, u), ParticipantResponses(after, u))
           /\ grown # {} \/ growers # {} =>
                \E i \in grown, u \in growers :
                  /\ grown = {i} /\ growers = {u}
                  /\ i = before.currentQuestionIndex + 1
                  /\ Len(QuestionResponses(after, i))
                       = Len(QuestionResponses(before, i)) + 1
                  /\ Len(ParticipantResponses(after, u))
                       = Len(ParticipantResponses(before, u)) + 1
                  /\ QuestionResponses(after, i)[Len(QuestionResponses(after, i))]
                       = ParticipantResponses(after, u)[Len(ParticipantResponses(after, u))]
                  /\ ParticipantResponses(after, u)[Len(ParticipantResponses(after, u))].userId = u]_vars

\* the second question has the answers of both users on record, after both
\* answered the first
C34_Witness ==
  \E sid \in Sessions :
    /\ Len(quizzes[sid].questions) >= 2
    /\ Len(quizzes[sid].questions[1].responses) = NumUsers
    /\ Len(quizzes[sid].questions[2].responses) = NumUsers
    /\ \A k \in 1..Len(quizzes[sid].participants) :
         Len(quizzes[sid].participants[k].responses) = 2

\* --------------------------------------------------------------------- C35
RECURSIVE SumPoints(_)
SumPoints(responses) ==
  IF responses = << >> THEN 0
  ELSE Head(responses).points + SumPoints(Tail(responses))

CorrectResponses(responses) ==
  Cardinality({k \in 1..Len(responses) : responses[k].isCorrect})

\* C35: a participant's score is the sum of the points of their recorded
\* responses, their correctAnswers the number of their correct responses,
\* and no step lowers a score.
C35_ScoreIsSumOfPoints ==
  /\ [](\A sid \in Sessions : \A k \in 1..Len(quizzes[sid].participants) :
          LET participant == quizzes[sid].participants[k]
          IN  /\ participant.score = SumPoints(participant.responses)
              /\ participant.correctAnswers = CorrectResponses(participant.responses))
  /\ [][\A sid \in Sessions : \A k \in 1..Len(quizzes[sid].participants) :
          quizzes'[sid].participants[k].score >= quizzes[sid].participants[k].score]_vars

\* a participant with a wrong answer after a scoring one, and another who
\* answered correctly
C35_Witness ==
  \E sid \in Sessions :
    /\ \E k \in 1..Len(quizzes[sid].participants) :
         LET responses == quizzes[sid].participants[k].responses
         IN  /\ Len(responses) >= 2
             /\ responses[1].points > 0
             /\ ~responses[2].isCorrect
    /\ \E k \in 1..Len(quizzes[sid].participants) :
         LET responses == quizzes[sid].participants[k].responses
         IN  /\ Len(responses) >= 2
             /\ responses[1].isCorrect /\ responses[2].isCorrect

\* --------------------------------------------------------------------- C36
\* the keys of quiz.participants, in insertion order
Keys(quiz) == [k \in 1..Len(quiz.participants) |-> quiz.participants[k].userId]

\* C36: no step removes a key from a session's participant map, and every
\* participant in a map has at least one response on record.
C36_ParticipantsStay ==
  /\ [](\A sid \in Sessions : \A k \in 1..Len(quizzes[sid].participants) :
          Len(quizzes[sid].participants[k].responses) >= 1)
  /\ [][\A sid \in Sessions : IsPrefix(Keys(quizzes[sid]), Keys(quizzes'[sid]))]_vars

\* a completed session that every user took part in, one of them with a
\* single answer to a two-question quiz
C36_Witness ==
  \E sid \in Sessions :
    /\ quizzes[sid].status = "completed"
    /\ Len(quizzes[sid].participants) = NumUsers
    /\ Len(quizzes[sid].questions) = 2
    /\ \E k \in 1..NumUsers : Len(quizzes[sid].participants[k].responses) = 1

\* --------------------------------------------------------------------- C37
\* C37: the responses in the list of question i carry questionIndex i, a
\* question the session has not reached has none, and the step that adds
\* one starts from the session running with currentQuestionIndex i.
C37_ResponsesOfCurrentQuestion ==
  /\ [](\A sid \in Sessions : \A q \in 1..Len(quizzes[sid].questions) :
          LET responses == quizzes[sid].questions[q].responses
          IN  /\ \A k \in 1..Len(responses) : responses[k].questionIndex = q - 1
              /\ q - 1 > quizzes[sid].currentQuestionIndex => responses = << >>)
  /\ [][\A sid \in Sessions : \A q \in 1..Len(quizzes[sid].questions) :
          quizzes'[sid].questions[q].responses # quizzes[sid].questions[q].responses
            => /\ quizzes[sid].status = "running"
               /\ quizzes[sid].currentQuestionIndex = q - 1]_vars

\* a session running its second of three questions, with answers on record
\* for the first and the second
C37_Witness ==
  \E sid \in Sessions :
    /\ quizzes[sid].status = "running"
    /\ quizzes[sid].currentQuestionIndex = 1
    /\ Len(quizzes[sid].questions) = 3
    /\ quizzes[sid].questions[1].responses # << >>
    /\ quizzes[sid].questions[2].responses # << >>

\* --------------------------------------------------------------------- C38
\* C38: a loadAndStartQuiz that returns failure leaves no session of its
\* own registered and not completed, so that the chat can be started
\* again: stated for the call whose start announcement is rejected after
\* it registered its session.
C38_FailedStartLeavesNoSession ==
  \A a \in Suspended("announce") :
    LET failed == loadAndStartQuizResume(revision, Resume(Cur, a), a, FALSE)
    IN  /\ ~failed.ret.success
        /\ ~(failed.aq[a.chat] = a.sid /\ AlreadyActive(failed, a.chat))

\* --------------------------------------------------------------------- C39
\* the engine as the bot wires it, with sessions in several chats, loaded
\* from definitions whose entries may be missing or malformed
NextMalformed ==
  \/ LoadAndStartQuiz_quiz_js(MalformedBounds)
  \/ LoadAndStartQuiz_part_004(MalformedBounds)
  \/ EndQuiz
  \/ ProcessAnswer(MalformedBounds)
  \/ Callbacks

SpecMalformed == Init /\ [][NextMalformed]_vars

\* C39: a session whose question at the current index is missing or
\* malformed is forced to completed, so no session is left running on such
\* a question; and the step that meets the question leaves the sessions,
\* timeouts and suspended handlers of every other chat unchanged.
C39_BadQuestionCompletesSession ==
  /\ [](\A sid \in Sessions :
          quizzes[sid].status = "running"
            => Displayable(quizzes[sid], quizzes[sid].currentQuestionIndex))
  /\ [][\E a \in Chats : \A b \in Chats \ {a} : ChatState(b)' = ChatState(b)]_vars


\* --------------------------------------------------------------------- C40
RECURSIVE SumScores(_)
SumScores(participants) ==
  IF participants = << >> THEN 0
  ELSE Head(participants).score + SumScores(Tail(participants))

\* the questions of a session that have a first correct answer on record
FirstAnswered(quiz) ==
  {q \in 1..Len(quiz.questions) : quiz.questions[q].firstCorrectAnswer # 0}

\* C40: under the first-correct-only scorer (quiz.js) the responses of one
\* question carry at most 1 point between them, and the scores of all the
\* participants of a session add up to the number of its questions that
\* have a first correct answer.
C40_OnePointPerQuestion ==
  revision = "quiz_js" =>
    \A sid \in Sessions :
      /\ \A q \in 1..Len(quizzes[sid].questions) :
           SumPoints(quizzes[sid].questions[q].responses) <= 1
      /\ SumScores(quizzes[sid].participants)
           = Cardinality(FirstAnswered(quizzes[sid]))

\* quiz.js: two questions have a first correct answer, given by different
\* participants, and one of the two also answered the other's question
\* correctly, for no point
C40_Witness ==
  /\ revision = "quiz_js"
  /\ \E sid \in Sessions :
       LET quiz == quizzes[sid] IN
         /\ Cardinality(FirstAnswered(quiz)) = 2
         /\ Len(quiz.participants) = 2
         /\ quiz.participants[1].score = 1 /\ quiz.participants[2].score = 1
         /\ \E k \in 1..2 : quiz.participants[k].correctAnswers = 2

====
